---- MODULE Spec2Model ----
(***************************************************************************)
(* Receive-side voice pipeline: VoiceReceiver (src/src/receive/            *)
(* VoiceReceiver.ts).  Signaling packets update the SSRC registry,         *)
(* datagrams are routed by SSRC to a subscribed stream, decrypted,         *)
(* stripped of their RTP header extension and pushed, or the stream is     *)
(* destroyed.  Buffers are sequences of bytes, offsets are 0-based as in   *)
(* the source (At(buf, i) is buf[i]).                                      *)
(***************************************************************************)
EXTENDS Integers, Sequences, FiniteSets, TLC

VARIABLES ssrcMap, subscriptions, connectionData, channels, result

vars == <<ssrcMap, subscriptions, connectionData, channels, result>>

(***************************************************************************)
(* Bounds of the exploration.                                              *)
(***************************************************************************)
\* frames delivered in one run, over all streams
MaxFrames == 2
\* streams created in one run
MaxChannels == 2

(***************************************************************************)
(* Optional values (JavaScript undefined).                                 *)
(***************************************************************************)
None == [set |-> FALSE]
Some(v) == [set |-> TRUE, v |-> v]

(***************************************************************************)
(* Buffer primitives of the runtime, as VoiceReceiver uses them.           *)
(***************************************************************************)
Min(a, b) == IF a < b THEN a ELSE b
Max(a, b) == IF a > b THEN a ELSE b

\* buf[i]: the byte at 0-based offset i, or -1 for undefined (out of range)
At(buf, i) == IF i >= 0 /\ i < Len(buf) THEN buf[i + 1] ELSE -1

\* buf.slice(start, end): indices clamped, a negative index counts from the
\* end, an empty result when end <= start.  end = None is "to the end".
BufSlice(buf, start, end) ==
    LET n == Len(buf)
        cl(i) == IF i < 0 THEN Max(n + i, 0) ELSE Min(i, n)
        s == cl(start)
        e == IF end.set THEN cl(end.v) ELSE n
    IN  IF e <= s THEN << >> ELSE SubSeq(buf, s + 1, e)

\* source.copy(target, targetStart, sourceStart, sourceEnd): a negative or
\* too large sourceStart is a RangeError; otherwise as many bytes as fit are
\* copied over the target, the rest of the target is kept.
BufCopy(source, target, targetStart, sourceStart, sourceEnd) ==
    IF sourceStart < 0 \/ sourceStart > Len(source)
    THEN [raised |-> TRUE, buf |-> target]
    ELSE LET nb == Min(Min(sourceEnd, Len(source)) - sourceStart,
                       Len(target) - targetStart)
         IN  [raised |-> FALSE,
              buf |-> [i \in 1..Len(target) |->
                         IF i > targetStart /\ i <= targetStart + nb
                         THEN source[sourceStart + (i - targetStart)]
                         ELSE target[i]]]

\* buf.readUInt8(offset) / readUInt16BE / readUInt32BE: a RangeError when the
\* last byte read lies outside the buffer.
ReadUInt8(buf, offset) ==
    IF offset < 0 \/ offset + 1 > Len(buf)
    THEN [raised |-> TRUE, v |-> 0]
    ELSE [raised |-> FALSE, v |-> At(buf, offset)]

ReadUInt16BE(buf, offset) ==
    IF offset < 0 \/ offset + 2 > Len(buf)
    THEN [raised |-> TRUE, v |-> 0]
    ELSE [raised |-> FALSE, v |-> At(buf, offset) * 256 + At(buf, offset + 1)]

ReadUInt32BE(buf, offset) ==
    IF offset < 0 \/ offset + 4 > Len(buf)
    THEN [raised |-> TRUE, v |-> 0]
    ELSE [raised |-> FALSE,
          v |-> At(buf, offset) * 16777216 + At(buf, offset + 1) * 65536
                + At(buf, offset + 2) * 256 + At(buf, offset + 3)]

(***************************************************************************)
(* The authenticated-decryption primitive (methods.open of util/Secretbox, *)
(* an opaque collaborator).  It is modelled as a keyed function of the     *)
(* whole 24-byte nonce: a box is a 16-byte authenticator followed by the   *)
(* payload shifted bytewise by the key; a box shorter than the             *)
(* authenticator, or one whose authenticator does not match nonce and key, *)
(* does not open.                                                          *)
(***************************************************************************)
MACBYTES == 16
NonceLen == 24

RECURSIVE SumSeq(_)
SumSeq(s) == IF s = << >> THEN 0 ELSE Head(s) + SumSeq(Tail(s))

Mac(nonce, key) == (SumSeq(nonce) + SumSeq(key)) % 256

KeyByte(key, i) == key[((i - 1) % Len(key)) + 1]

Open(box, nonce, key) ==
    IF Len(box) < MACBYTES THEN None
    ELSE LET mac == Mac(nonce, key)
         IN  IF \A i \in 1..MACBYTES : box[i] = mac
             THEN Some([i \in 1..(Len(box) - MACBYTES) |->
                          (box[MACBYTES + i] + 256 - KeyByte(key, i)) % 256])
             ELSE None

(***************************************************************************)
(* VoiceReceiver.decrypt: the nonce is copied into the scratch buffer      *)
(* according to the mode, then the span buffer.slice(12, end) is opened.   *)
(* The result carries the scratch buffer as the call leaves it.            *)
(***************************************************************************)
ModeLite == "xsalsa20_poly1305_lite"
ModeSuffix == "xsalsa20_poly1305_suffix"
ModeNormal == "xsalsa20_poly1305"

\* mutant of decrypt: the span runs to the end of the datagram in every mode
decryptWholeSpan(buffer, mode, nonce, secretKey) ==
    LET cp == IF mode = ModeLite
              THEN BufCopy(buffer, nonce, 0, Len(buffer) - 4, Len(buffer))
              ELSE IF mode = ModeSuffix
              THEN BufCopy(buffer, nonce, 0, Len(buffer) - 24, Len(buffer))
              ELSE BufCopy(buffer, nonce, 0, 0, 12)
    IN  IF cp.raised
        THEN [raised |-> TRUE, nonce |-> nonce, packet |-> None]
        ELSE [raised |-> FALSE, nonce |-> cp.buf,
              packet |-> Open(BufSlice(buffer, 12, None), cp.buf, secretKey)]

\* mutant of decrypt: the lite mode copies 24 bytes, as the suffix mode does
decryptLiteAsSuffix(buffer, mode, nonce, secretKey) ==
    LET cp == IF mode = ModeLite
              THEN BufCopy(buffer, nonce, 0, Max(Len(buffer) - 24, 0), Len(buffer))
              ELSE IF mode = ModeSuffix
              THEN BufCopy(buffer, nonce, 0, Len(buffer) - 24, Len(buffer))
              ELSE BufCopy(buffer, nonce, 0, 0, 12)
        end == IF mode = ModeLite THEN Some(Len(buffer) - 4)
               ELSE IF mode = ModeSuffix THEN Some(Len(buffer) - 24)
               ELSE None
    IN  IF cp.raised
        THEN [raised |-> TRUE, nonce |-> nonce, packet |-> None]
        ELSE [raised |-> FALSE, nonce |-> cp.buf,
              packet |-> Open(BufSlice(buffer, 12, end), cp.buf, secretKey)]

decrypt(buffer, mode, nonce, secretKey) ==
    LET cp == IF mode = ModeLite
              THEN BufCopy(buffer, nonce, 0, Len(buffer) - 4, Len(buffer))
              ELSE IF mode = ModeSuffix
              THEN BufCopy(buffer, nonce, 0, Len(buffer) - 24, Len(buffer))
              ELSE BufCopy(buffer, nonce, 0, 0, 12)
        end == IF mode = ModeLite THEN Some(Len(buffer) - 4)
               ELSE IF mode = ModeSuffix THEN Some(Len(buffer) - 24)
               ELSE None
    IN  IF cp.raised
        THEN [raised |-> TRUE, nonce |-> nonce, packet |-> None]
        ELSE [raised |-> FALSE, nonce |-> cp.buf,
              packet |-> Open(BufSlice(buffer, 12, end), cp.buf, secretKey)]

(***************************************************************************)
(* VoiceReceiver.parsePacket: the loop over the one-byte header extension  *)
(* elements, and the stripping of the extension block.                     *)
(***************************************************************************)
\* the for loop of parsePacket: i iterations left, cursor at offset
RECURSIVE ExtensionLoop(_, _, _)
ExtensionLoop(packet, offset, i) ==
    IF i = 0 THEN offset
    ELSE LET byte == At(packet, offset)
         IN  IF byte = 0
             THEN ExtensionLoop(packet, offset + 1, i - 1)
             ELSE \* undefined >> 4 is 0
                  ExtensionLoop(packet,
                                offset + 1 + 1 + (IF byte < 0 THEN 0 ELSE byte \div 16),
                                i - 1)

HasExtension(packet) ==
    At(packet, 0) = 190 /\ At(packet, 1) = 222 /\ Len(packet) > 4

\* lines 106-121: the packet with its extension block stripped, or a
\* RangeError from readUInt8 when the cursor is outside the packet
StripExtension(packet) ==
    IF HasExtension(packet)
    THEN LET headerExtensionLength == ReadUInt16BE(packet, 2).v
             offset == ExtensionLoop(packet, 4, headerExtensionLength)
             byte == ReadUInt8(packet, offset)
         IN  IF byte.raised THEN [raised |-> TRUE, packet |-> packet]
             ELSE [raised |-> FALSE,
                   packet |-> BufSlice(packet,
                                       IF byte.v = 0 \/ byte.v = 2
                                       THEN offset + 1 ELSE offset,
                                       None)]
    ELSE [raised |-> FALSE, packet |-> packet]

parsePacket(buffer, mode, nonce, secretKey) ==
    LET d == decrypt(buffer, mode, nonce, secretKey)
    IN  IF d.raised \/ ~d.packet.set THEN d
        ELSE LET st == StripExtension(d.packet.v)
             IN  [raised |-> st.raised, nonce |-> d.nonce,
                  packet |-> IF st.raised THEN None ELSE Some(st.packet)]

(***************************************************************************)
(* JavaScript values as the handlers test them with typeof.                *)
(***************************************************************************)
Undefined == [t |-> "undefined", s |-> "", n |-> 0]
Str(x) == [t |-> "string", s |-> x, n |-> 0]
Num(k) == [t |-> "number", s |-> "", n |-> k]

(***************************************************************************)
(* The identity registry (SSRCMap): one binding per user, one binding per  *)
(* audio SSRC.  A binding is [userId, audioSSRC, videoSSRC].               *)
(***************************************************************************)
Users == {"u1", "u2"}
SSRCs == {0, 1, 258}

\* mutant of SSRCMapUpdate: a binding of another user under the same audio
\* SSRC is kept
SSRCMapUpdateKeep(map, data) ==
    [u \in Users |-> IF u = data.userId THEN Some(data) ELSE map[u]]

\* ssrcMap.update(data): insert or replace the binding of data.userId; a
\* binding of another user under the same audio SSRC is superseded
SSRCMapUpdate(map, data) ==
    [u \in Users |->
        IF u = data.userId THEN Some(data)
        ELSE IF map[u].set /\ map[u].v.audioSSRC = data.audioSSRC THEN None
        ELSE map[u]]

\* ssrcMap.delete(userId)
SSRCMapDelete(map, userId) ==
    [u \in Users |-> IF u = userId THEN None ELSE map[u]]

\* ssrcMap.get(target): by audio SSRC for a number, by user id for a string
SSRCMapGet(map, target) ==
    IF target.t = "number"
    THEN IF \E u \in Users : map[u].set /\ map[u].v.audioSSRC = target.n
         THEN map[CHOOSE u \in Users : map[u].set /\ map[u].v.audioSSRC = target.n]
         ELSE None
    ELSE IF target.t = "string" /\ target.s \in Users THEN map[target.s]
    ELSE None

(***************************************************************************)
(* The output stream (AudioReceiveStream, a Readable in object mode):      *)
(* frames is everything pushed so far, state is "open", "destroyed"        *)
(* (destroy() was called, the 'close' event is still to be emitted) or     *)
(* "closed" ('close' was emitted).                                         *)
(***************************************************************************)
NewStream(ssrc) == [ssrc |-> ssrc, frames |-> << >>, state |-> "open", error |-> FALSE]

\* stream.push(packet): appended while the stream is open
StreamPush(stream, packet) ==
    IF stream.state = "open"
    THEN [stream EXCEPT !.frames = Append(@, packet)]
    ELSE stream

\* stream.destroy(error)
StreamDestroy(stream, error) ==
    IF stream.state = "open"
    THEN [stream EXCEPT !.state = "destroyed", !.error = error]
    ELSE stream

(***************************************************************************)
(* Maps (the subscriptions Map<number, AudioReceiveStream>; a stream is    *)
(* held by its index in channels).                                         *)
(***************************************************************************)
EmptyMap == [k \in {} |-> 0]
MapHas(m, k) == k \in DOMAIN m
MapSet(m, k, v) == [x \in (DOMAIN m) \cup {k} |-> IF x = k THEN v ELSE m[x]]
MapDelete(m, k) == [x \in (DOMAIN m) \ {k} |-> m[x]]

\* a 'close' event is still to be emitted: it is emitted on the next tick,
\* before any further packet or datagram is handled
ClosePending == \E c \in DOMAIN channels : channels[c].state = "destroyed"

\* a signaling packet: its opcode and the fields of d the handler reads
Packet(op, user, ssrc, audio, video) ==
    [op |-> op, d |-> [user_id |-> user, ssrc |-> ssrc, audio_ssrc |-> audio,
                       video_ssrc |-> video]]

NoPacket == Packet("", Undefined, Undefined, Undefined, Undefined)

\* what the last step was and how it ended: "return" or "throw" with the
\* target (subscribe); the path taken, the source id read (-1: none) and,
\* unless the datagram was dropped, the datagram (onUdpMessage); the packet
\* handled (onWsPacket); the stream concerned (0: none)
Idle ==
    [op |-> "none", kind |-> "done", chan |-> 0, target |-> Undefined,
     ssrc |-> -1, msg |-> << >>, packet |-> NoPacket]
Subscribed(target, kind, chan) ==
    [op |-> "subscribe", kind |-> kind, chan |-> chan, target |-> target,
     ssrc |-> -1, msg |-> << >>, packet |-> NoPacket]
Handled(msg, ssrc, kind, chan) ==
    [op |-> "onUdpMessage", kind |-> kind, chan |-> chan, target |-> Undefined,
     ssrc |-> ssrc, msg |-> IF kind = "drop" THEN << >> ELSE msg, packet |-> NoPacket]
Signaled(packet) ==
    [op |-> "onWsPacket", kind |-> "return", chan |-> 0, target |-> Undefined,
     ssrc |-> -1, msg |-> << >>, packet |-> packet]

(***************************************************************************)
(* Inputs: signaling packets, cipher contexts, datagrams, targets.         *)
(***************************************************************************)
\* the routing runs: u1 is announced under 0 and 1 (rebinding, the source
\* id 0), u2 under 258
Packets ==
    {Packet("ClientDisconnect", Str(u), Undefined, Undefined, Undefined) : u \in Users}
    \cup {Packet("Speaking", Str("u1"), Num(n), Undefined, Undefined) : n \in {0, 1}}
    \cup {Packet("Speaking", Str("u2"), Num(258), Undefined, Undefined)}

\* packets the handler ignores: fields of the wrong type, another opcode
IgnoredPackets ==
    {Packet("ClientDisconnect", Num(7), Undefined, Undefined, Undefined),
     Packet("Speaking", Str("u1"), Str("1"), Undefined, Undefined),
     Packet("ClientConnect", Undefined, Undefined, Num(1), Undefined),
     Packet("Hello", Str("u1"), Num(1), Num(1), Undefined)}

Targets == {Str(u) : u \in Users} \cup {Num(0), Num(1)}

Zeros(n) == [i \in 1..n |-> 0]
SecretKey == <<3, 5>>
Modes == {ModeLite, ModeSuffix, ModeNormal}

\* line 141: the three fields are truthy
CipherComplete(cd) ==
    cd.encryptionMode # "" /\ cd.nonceBuffer # << >> /\ cd.secretKey # << >>

NoConnectionData == [encryptionMode |-> "", nonceBuffer |-> << >>, secretKey |-> << >>]

\* the contexts the session layer installs: none, complete ones with a fresh
\* scratch buffer, and an incomplete one (connectionData is a Partial).  An
\* absent field is "" or the empty buffer.
ConnectionDatas ==
    {NoConnectionData}
    \cup {[encryptionMode |-> m, nonceBuffer |-> Zeros(NonceLen),
           secretKey |-> SecretKey] : m \in Modes}
    \cup {[encryptionMode |-> ModeLite, nonceBuffer |-> Zeros(NonceLen),
           secretKey |-> << >>]}

U32BE(n) == <<n \div 16777216, (n \div 65536) % 256, (n \div 256) % 256, n % 256>>
Header(ssrc) == <<128, 120, 0, 1, 0, 0, 0, 2>> \o U32BE(ssrc)
LiteTrailer == <<0, 0, 0, 7>>
SuffixTrailer == [i \in 1..24 |-> i]

\* the sender's side of the primitive: authenticator, then the shifted payload
Seal(payload, nonce, key, good) ==
    [i \in 1..MACBYTES |-> IF good THEN Mac(nonce, key) ELSE (Mac(nonce, key) + 1) % 256]
    \o [i \in 1..Len(payload) |-> (payload[i] + KeyByte(key, i)) % 256]

\* a datagram framed for the mode, its box authentic or tampered with
MkDatagram(mode, ssrc, payload, good) ==
    IF mode = ModeLite
    THEN Header(ssrc) \o Seal(payload, LiteTrailer \o Zeros(20), SecretKey, good)
         \o LiteTrailer
    ELSE IF mode = ModeSuffix
    THEN Header(ssrc) \o Seal(payload, SuffixTrailer, SecretKey, good) \o SuffixTrailer
    ELSE Header(ssrc) \o Seal(payload, Header(ssrc) \o Zeros(12), SecretKey, good)

\* the sender's next datagram: sequence number 2, another nonce
NextHeader(ssrc) == <<128, 120, 0, 2, 0, 0, 0, 2>> \o U32BE(ssrc)
NextLiteTrailer == <<0, 0, 0, 8>>
NextSuffixTrailer == [i \in 1..24 |-> i + 1]

MkNextDatagram(mode, ssrc, payload) ==
    IF mode = ModeLite
    THEN NextHeader(ssrc) \o Seal(payload, NextLiteTrailer \o Zeros(20), SecretKey, TRUE)
         \o NextLiteTrailer
    ELSE IF mode = ModeSuffix
    THEN NextHeader(ssrc) \o Seal(payload, NextSuffixTrailer, SecretKey, TRUE)
         \o NextSuffixTrailer
    ELSE NextHeader(ssrc) \o Seal(payload, NextHeader(ssrc) \o Zeros(12), SecretKey, TRUE)

\* decrypted payloads: plain audio (one per sender); an extension block of
\* one element and the alignment byte before the audio; an extension block
\* that declares more elements than the payload holds
PlainPayload == <<1, 2, 3>>
OtherPayload == <<7, 8>>
ExtPayload == <<190, 222, 0, 1, 16, 9, 9, 0, 5, 6>>
OverrunPayload == <<190, 222, 0, 3, 16, 9>>
\* an empty extension block in front of audio that itself starts with BE DE
NestedPayload == <<190, 222, 0, 0, 190, 222, 0, 0, 1>>

\* the source ids on the wire
WireSSRCs == {1, 258}

\* a datagram cut to n bytes
Short(ssrc, n) == SubSeq(Header(ssrc) \o Zeros(24), 1, n)

\* the datagrams of a session in mode m: two datagrams of one sender with
\* their nonces, one of another sender, one tampered with, and cut ones
\* (without a source id; with an empty ciphertext span; for the suffix mode,
\* too short to hold the trailing nonce); payloads with an extension block
\* come in one mode
DatagramsOf(m) ==
    {MkDatagram(m, 1, PlainPayload, TRUE), MkNextDatagram(m, 1, PlainPayload),
     MkDatagram(m, 258, OtherPayload, TRUE), MkDatagram(m, 1, PlainPayload, FALSE)}
    \cup {Short(1, 8), Short(1, 9)}
    \cup (IF m = ModeSuffix THEN {Short(1, 16), Short(1, 36)} ELSE {Short(1, 16)})
    \cup (IF m = ModeLite
          THEN {MkDatagram(m, 1, p, TRUE) : p \in {ExtPayload, OverrunPayload, NestedPayload}}
          ELSE {})

Datagrams == UNION {DatagramsOf(m) : m \in Modes}

\* the routing runs: one mode
RouteContexts ==
    {NoConnectionData,
     [encryptionMode |-> ModeLite, nonceBuffer |-> Zeros(NonceLen), secretKey |-> SecretKey]}
RouteDatagrams ==
    {MkDatagram(ModeLite, 1, p, TRUE) : p \in {PlainPayload, ExtPayload}}
    \cup {MkDatagram(ModeLite, 258, OtherPayload, TRUE),
          MkDatagram(ModeLite, 1, PlainPayload, FALSE), Short(1, 8), Short(1, 9)}

\* the signaling runs: every packet shape, both users under the same and
\* under several source ids, a connect with the video source id 0, 9 or
\* none; one sender's datagrams, under a complete and an incomplete context
SignalPackets ==
    {Packet("ClientDisconnect", Str(u), Undefined, Undefined, Undefined) : u \in Users}
    \cup {Packet("Speaking", Str("u1"), Num(n), Undefined, Undefined) : n \in SSRCs}
    \cup {Packet("Speaking", Str("u2"), Num(n), Undefined, Undefined) : n \in {1, 258}}
    \cup {Packet("ClientConnect", Str("u1"), Undefined, Num(1), Num(v)) : v \in {0, 9}}
    \cup {Packet("ClientConnect", Str("u2"), Undefined, Num(258), Undefined)}
    \cup IgnoredPackets
SignalContexts == {cd \in ConnectionDatas : cd.encryptionMode = ModeLite}
SignalDatagrams ==
    {MkDatagram(ModeLite, 1, PlainPayload, TRUE), MkDatagram(ModeLite, 1, PlainPayload, FALSE)}
SignalTargets == {Str(u) : u \in Users}

\* the runs over all modes: one user, one source id
ModePackets ==
    {Packet("Speaking", Str("u1"), Num(1), Undefined, Undefined),
     Packet("ClientDisconnect", Str("u1"), Undefined, Undefined, Undefined)}
ModeTargets == {Str("u1"), Num(1)}
ModeContexts == {cd \in ConnectionDatas : cd = NoConnectionData \/ CipherComplete(cd)}

(***************************************************************************)
(* State.                                                                  *)
(*   ssrcMap         the registry                                          *)
(*   subscriptions   audio SSRC -> index of its stream in channels         *)
(*   connectionData  the cipher context (each field optional)              *)
(*   channels        every stream created so far                           *)
(*   result          what the last step was and how it ended               *)
(***************************************************************************)
Init ==
    /\ ssrcMap = [u \in Users |-> None]
    /\ subscriptions = EmptyMap
    /\ connectionData = NoConnectionData
    /\ channels = << >>
    /\ result = Idle

(***************************************************************************)
(* onWsPacket (lines 52-72).                                               *)
(***************************************************************************)
\* mutant of onWsPacketMap: the video SSRC is stored as announced
onWsPacketMapVideoAsIs(map, packet) ==
    IF packet.op = "ClientDisconnect" /\ packet.d.user_id.t = "string"
    THEN SSRCMapDelete(map, packet.d.user_id.s)
    ELSE IF packet.op = "Speaking" /\ packet.d.user_id.t = "string"
            /\ packet.d.ssrc.t = "number"
    THEN SSRCMapUpdate(map, [userId |-> packet.d.user_id.s,
                             audioSSRC |-> packet.d.ssrc.n,
                             videoSSRC |-> Undefined])
    ELSE IF packet.op = "ClientConnect" /\ packet.d.user_id.t = "string"
            /\ packet.d.audio_ssrc.t = "number"
    THEN SSRCMapUpdate(map, [userId |-> packet.d.user_id.s,
                             audioSSRC |-> packet.d.audio_ssrc.n,
                             videoSSRC |-> packet.d.video_ssrc])
    ELSE map

onWsPacketMap(map, packet) ==
    IF packet.op = "ClientDisconnect" /\ packet.d.user_id.t = "string"
    THEN SSRCMapDelete(map, packet.d.user_id.s)
    ELSE IF packet.op = "Speaking" /\ packet.d.user_id.t = "string"
            /\ packet.d.ssrc.t = "number"
    THEN SSRCMapUpdate(map, [userId |-> packet.d.user_id.s,
                             audioSSRC |-> packet.d.ssrc.n,
                             videoSSRC |-> Undefined])
    ELSE IF packet.op = "ClientConnect" /\ packet.d.user_id.t = "string"
            /\ packet.d.audio_ssrc.t = "number"
    THEN SSRCMapUpdate(map, [userId |-> packet.d.user_id.s,
                             audioSSRC |-> packet.d.audio_ssrc.n,
                             videoSSRC |-> IF packet.d.video_ssrc = Num(0)
                                           THEN Undefined
                                           ELSE packet.d.video_ssrc])
    ELSE map

\* mutant of onWsPacket: a disconnect also drops the registration of the
\* stream of the user's source id
onWsPacketUnregister(packet) ==
    /\ ~ClosePending
    /\ ssrcMap' = onWsPacketMap(ssrcMap, packet)
    /\ result' = Signaled(packet)
    /\ subscriptions' =
          IF /\ packet.op = "ClientDisconnect"
             /\ SSRCMapGet(ssrcMap, packet.d.user_id).set
          THEN MapDelete(subscriptions, SSRCMapGet(ssrcMap, packet.d.user_id).v.audioSSRC)
          ELSE subscriptions
    /\ UNCHANGED <<connectionData, channels>>

onWsPacket(packet) ==
    /\ ~ClosePending
    /\ ssrcMap' = onWsPacketMap(ssrcMap, packet)
    /\ result' = Signaled(packet)
    /\ UNCHANGED <<subscriptions, connectionData, channels>>

\* the session layer assigns receiver.connectionData
SetConnectionData(cd) ==
    /\ ~ClosePending
    /\ connectionData' = cd
    /\ result' = Idle
    /\ UNCHANGED <<ssrcMap, subscriptions, channels>>

(***************************************************************************)
(* onUdpMessage (lines 132-154).  UdpOutcome is the path the handler       *)
(* takes: "drop" (an early return, or no complete cipher context), "push", *)
(* "destroy", or "raise" (a RangeError leaves the handler).                *)
(***************************************************************************)
Parsed(msg, cd) == parsePacket(msg, cd.encryptionMode, cd.nonceBuffer, cd.secretKey)

\* mutant of UdpOutcome: the binding of the source id is not looked up
UdpOutcomeUnbound(msg, subs, map, cd) ==
    LET rd == ReadUInt32BE(msg, 8)
    IN  IF Len(msg) <= 8 THEN "drop"
        ELSE IF rd.raised THEN "raise"
        ELSE IF ~MapHas(subs, rd.v) THEN "drop"
        ELSE IF ~CipherComplete(cd) THEN "drop"
        ELSE LET p == Parsed(msg, cd)
             IN  IF p.raised THEN "raise"
                 ELSE IF p.packet.set THEN "push"
                 ELSE "destroy"

UdpOutcome(msg, subs, map, cd) ==
    LET rd == ReadUInt32BE(msg, 8)
    IN  IF Len(msg) <= 8 THEN "drop"
        ELSE IF rd.raised THEN "raise"
        ELSE IF ~MapHas(subs, rd.v) THEN "drop"
        ELSE IF ~SSRCMapGet(map, Num(rd.v)).set THEN "drop"
        ELSE IF ~CipherComplete(cd) THEN "drop"
        ELSE LET p == Parsed(msg, cd)
             IN  IF p.raised THEN "raise"
                 ELSE IF p.packet.set THEN "push"
                 ELSE "destroy"

\* the source id the handler read (-1: none)
UdpSSRC(msg) ==
    IF Len(msg) > 8 /\ ~ReadUInt32BE(msg, 8).raised THEN ReadUInt32BE(msg, 8).v ELSE -1

TotalFrames ==
    LET RECURSIVE Sum(_)
        Sum(c) == IF c = 0 THEN 0 ELSE Len(channels[c].frames) + Sum(c - 1)
    IN  Sum(Len(channels))

\* mutants of Deliver: a failure destroys every stream; the packet goes to
\* the first stream; the packet is pushed twice
DeliverDestroyAll(chs, c, packet) ==
    IF packet.set
    THEN [chs EXCEPT ![c] = StreamPush(@, packet.v)]
    ELSE [d \in DOMAIN chs |-> StreamDestroy(chs[d], TRUE)]

DeliverFirst(chs, c, packet) ==
    IF packet.set
    THEN [chs EXCEPT ![1] = StreamPush(@, packet.v)]
    ELSE [chs EXCEPT ![1] = StreamDestroy(@, TRUE)]

DeliverTwice(chs, c, packet) ==
    IF packet.set
    THEN [chs EXCEPT ![c] = StreamPush(StreamPush(@, packet.v), packet.v)]
    ELSE [chs EXCEPT ![c] = StreamDestroy(@, TRUE)]

\* lines 148-152: push the packet, or destroy the stream with an error
Deliver(chs, c, packet) ==
    IF packet.set
    THEN [chs EXCEPT ![c] = StreamPush(@, packet.v)]
    ELSE [chs EXCEPT ![c] = StreamDestroy(@, TRUE)]

\* mutant of onUdpMessage: a datagram for a source id without a stream
\* creates and registers one
onUdpMessageLazy(msg) ==
    /\ ~ClosePending
    /\ TotalFrames < MaxFrames
    /\ UdpSSRC(msg) # -1
    /\ ~MapHas(subscriptions, UdpSSRC(msg))
    /\ Len(channels) < MaxChannels
    /\ channels' = Append(channels, NewStream(UdpSSRC(msg)))
    /\ subscriptions' = MapSet(subscriptions, UdpSSRC(msg), Len(channels) + 1)
    /\ result' = Handled(msg, UdpSSRC(msg), "drop", 0)
    /\ UNCHANGED <<ssrcMap, connectionData>>

onUdpMessage(msg) ==
    /\ ~ClosePending
    /\ TotalFrames < MaxFrames
    /\ LET kind == UdpOutcome(msg, subscriptions, ssrcMap, connectionData)
           ssrc == UdpSSRC(msg)
           \* parsePacket was called
           parsed == kind \in {"push", "destroy"} \/ (kind = "raise" /\ ssrc # -1)
           p == Parsed(msg, connectionData)
       IN  /\ channels' =
                IF kind \in {"push", "destroy"}
                THEN Deliver(channels, subscriptions[ssrc], p.packet)
                ELSE channels
           \* decrypt writes the nonce into the scratch buffer
           /\ connectionData' =
                IF parsed
                THEN [connectionData EXCEPT !.nonceBuffer = p.nonce]
                ELSE connectionData
           /\ result' = Handled(msg, ssrc, kind,
                                IF parsed THEN subscriptions[ssrc] ELSE 0)
    /\ UNCHANGED <<ssrcMap, subscriptions>>

(***************************************************************************)
(* subscribe (lines 162-175).                                              *)
(***************************************************************************)
\* line 163: this.ssrcMap.get(target)?.audioSSRC
ResolveSSRC(map, target) ==
    IF SSRCMapGet(map, target).set
    THEN Some(SSRCMapGet(map, target).v.audioSSRC)
    ELSE None

\* line 164: if (!ssrc) throw
SubscribeThrows(map, target) ==
    ~ResolveSSRC(map, target).set \/ ResolveSSRC(map, target).v = 0

\* mutant of Existing: the registered stream is not looked up
ExistingNone(subs, ssrc) == 0

\* lines 168-169: the stream already registered (0: none)
Existing(subs, ssrc) == IF MapHas(subs, ssrc) THEN subs[ssrc] ELSE 0

subscribe(target) ==
    IF SubscribeThrows(ssrcMap, target)
    THEN /\ result' = Subscribed(target, "throw", 0)
         /\ UNCHANGED <<ssrcMap, subscriptions, connectionData, channels>>
    ELSE LET ssrc == ResolveSSRC(ssrcMap, target).v
         IN  IF Existing(subscriptions, ssrc) # 0
             THEN /\ result' = Subscribed(target, "return", Existing(subscriptions, ssrc))
                  /\ UNCHANGED <<ssrcMap, subscriptions, connectionData, channels>>
             ELSE /\ Len(channels) < MaxChannels
                  /\ channels' = Append(channels, NewStream(ssrc))
                  /\ subscriptions' = MapSet(subscriptions, ssrc, Len(channels) + 1)
                  /\ result' = Subscribed(target, "return", Len(channels) + 1)
                  /\ UNCHANGED <<ssrcMap, connectionData>>

(***************************************************************************)
(* The consumer and the stream's 'close' event.                            *)
(***************************************************************************)
\* the consumer destroys its stream
ConsumerDestroy(c) ==
    /\ channels[c].state = "open"
    /\ channels' = [channels EXCEPT ![c] = StreamDestroy(@, FALSE)]
    /\ result' = Idle
    /\ UNCHANGED <<ssrcMap, subscriptions, connectionData>>

\* mutant of OnClose: every registration is removed
OnCloseClear(subs, ssrc) == EmptyMap

\* mutant of OnClose: the registration is kept
OnCloseKeep(subs, ssrc) == subs

\* line 172: stream.once('close', () => this.subscriptions.delete(ssrc))
OnClose(subs, ssrc) == MapDelete(subs, ssrc)

\* the 'close' event of a destroyed stream is emitted
EmitClose(c) ==
    /\ channels[c].state = "destroyed"
    /\ channels' = [channels EXCEPT ![c].state = "closed"]
    /\ subscriptions' = OnClose(subscriptions, channels[c].ssrc)
    /\ result' = Idle
    /\ UNCHANGED <<ssrcMap, connectionData>>

Step(packets, contexts, datagrams, targets) ==
    \/ \E packet \in packets : onWsPacket(packet)
    \/ \E cd \in contexts : SetConnectionData(cd)
    \/ \E msg \in datagrams : onUdpMessage(msg)
    \/ \E target \in targets : subscribe(target)
    \/ \E c \in DOMAIN channels : ConsumerDestroy(c)
    \/ \E c \in DOMAIN channels : EmitClose(c)

\* routing: every signaling packet and target, one cipher mode
Next == Step(Packets, RouteContexts, RouteDatagrams, Targets)
Spec == Init /\ [][Next]_vars

\* signaling: every packet shape, one cipher mode, one sender
NextSignal == Step(SignalPackets, SignalContexts, SignalDatagrams, SignalTargets)
SpecSignal == Init /\ [][NextSignal]_vars

\* decoding: every cipher mode, one user and source id
NextModes == Step(ModePackets, ModeContexts, Datagrams, ModeTargets)
SpecModes == Init /\ [][NextModes]_vars

(***************************************************************************)
(* Properties.                                                             *)
(***************************************************************************)
Bound(map, ssrc) == SSRCMapGet(map, Num(ssrc)).set
IsUdp == result'.op = "onUdpMessage"

\* ---- C1 ----
C1_OneChannelPerSource ==
    /\ \A s \in DOMAIN subscriptions :
          /\ subscriptions[s] \in DOMAIN channels
          /\ channels[subscriptions[s]].ssrc = s
          /\ channels[subscriptions[s]].state # "closed"
    /\ \A c \in DOMAIN channels :
          channels[c].state # "closed" =>
             MapHas(subscriptions, channels[c].ssrc) /\ subscriptions[channels[c].ssrc] = c

C1_SubscribeStep ==
    (result'.op = "subscribe" /\ result'.kind = "return") =>
        LET s == ResolveSSRC(ssrcMap, result'.target).v
        IN  /\ MapHas(subscriptions', s)
            /\ subscriptions'[s] = result'.chan
            /\ MapHas(subscriptions, s) =>
                  /\ result'.chan = subscriptions[s]
                  /\ subscriptions' = subscriptions
                  /\ channels' = channels

C1_KeptUntilClose ==
    \A s \in DOMAIN subscriptions :
        (~MapHas(subscriptions', s) \/ subscriptions'[s] # subscriptions[s]) =>
            /\ channels[subscriptions[s]].state = "destroyed"
            /\ channels'[subscriptions[s]].state = "closed"

\* C1: every source id has at most one stream that is not closed, and it is
\* the one registered under it; a subscribe whose target resolves to a
\* source id that is registered returns the registered stream and changes
\* neither the registrations nor the streams; a registration only goes away
\* when its stream's close is notified.
C1_IdempotentSubscribe ==
    []C1_OneChannelPerSource /\ [][C1_SubscribeStep /\ C1_KeptUntilClose]_vars

\* a subscribe by source id returned a stream that already holds a frame
C1_Witness ==
    /\ result.op = "subscribe" /\ result.kind = "return"
    /\ result.target.t = "number"
    /\ Len(channels[result.chan].frames) > 0
    /\ Cardinality(DOMAIN subscriptions) = 1

\* ---- C2 ----
\* C2: a datagram changes no stream registered under another source id than
\* its own and no registration; when it fails to decode, the stream under
\* its source id becomes destroyed with an error, keeping its frames, and
\* every other stream is unchanged; a later decoded datagram still adds its
\* frame to the stream under its own source id.
C2_FailureIsolation ==
    [][IsUdp =>
        /\ subscriptions' = subscriptions
        /\ \A d \in DOMAIN channels :
              channels[d].ssrc # result'.ssrc => channels'[d] = channels[d]
        /\ result'.kind = "destroy" =>
              LET c == subscriptions[result'.ssrc]
              IN  /\ result'.chan = c
                  /\ channels'[c] = [channels[c] EXCEPT !.state = "destroyed",
                                                        !.error = TRUE]
                  /\ \A d \in DOMAIN channels \ {c} : channels'[d] = channels[d]
        /\ result'.kind = "push" =>
              Len(channels'[subscriptions[result'.ssrc]].frames)
                 = Len(channels[subscriptions[result'.ssrc]].frames) + 1]_vars

\* the stream created second was terminated with an error, and the stream
\* created first, for another source id, has received a frame since
C2_Witness ==
    /\ Len(channels) = 2
    /\ channels[2].error /\ channels[2].frames = << >>
    /\ channels[1].ssrc # channels[2].ssrc
    /\ channels[1].state = "open"
    /\ result.op = "onUdpMessage" /\ result.kind = "push" /\ result.chan = 1

\* ---- C3 ----
\* C3: handling a datagram ends in a silent drop, a pushed frame or a
\* terminated stream, and never raises an error out of the receiver.
C3_NeverRaises ==
    result.op = "onUdpMessage" => result.kind \in {"drop", "push", "destroy"}

\* ---- C4 ----
\* the ciphertext span [12, length - 4) or [12, length - 24) is empty or
\* negative
TooShort(msg, mode) ==
    \/ mode = ModeLite /\ Len(msg) - 4 <= 12
    \/ mode = ModeSuffix /\ Len(msg) - 24 <= 12

\* C4: a datagram that targets a subscribed and identified stream under a
\* complete context and is too short for the mode's framing terminates that
\* stream with an error.
C4_ShortIsDecodeFailure ==
    (/\ result.op = "onUdpMessage"
     /\ result.chan # 0
     /\ TooShort(result.msg, connectionData.encryptionMode))
    => result.kind = "destroy"

\* ---- C5 ----
\* C5: the close notification of a stream leaves no registration for its
\* source id; a closed stream is never registered; a datagram carrying a
\* source id without registration is dropped and changes nothing; and a
\* source id only becomes registered by a subscribe.
C5_ClosedIsUnrouted ==
    [][/\ \A c \in DOMAIN channels :
             (channels[c].state = "destroyed" /\ channels'[c].state = "closed")
                => ~MapHas(subscriptions', channels[c].ssrc)
       /\ \A s \in DOMAIN subscriptions' : channels'[subscriptions'[s]].state # "closed"
       /\ (IsUdp /\ result'.ssrc # -1 /\ ~MapHas(subscriptions, result'.ssrc)) =>
             /\ result'.kind = "drop"
             /\ UNCHANGED <<ssrcMap, subscriptions, connectionData, channels>>
       /\ \A s \in DOMAIN subscriptions' :
             ~MapHas(subscriptions, s) => result'.op = "subscribe"]_vars

\* a datagram for a bound source id under a complete context was dropped:
\* the stream of that source id is closed and nothing is registered
C5_Witness ==
    /\ result.op = "onUdpMessage" /\ result.kind = "drop" /\ result.ssrc # -1
    /\ \E c \in DOMAIN channels :
          channels[c].ssrc = result.ssrc /\ channels[c].state = "closed"
    /\ ~MapHas(subscriptions, result.ssrc)
    /\ Bound(ssrcMap, result.ssrc)
    /\ CipherComplete(connectionData)

\* ---- C6 ----
\* C6: handling a datagram registers no source id and creates no stream; a
\* datagram without a source id, or whose source id has no registration,
\* leaves registry, registrations and streams unchanged.
C6_NoChannelFromDatagram ==
    [][IsUdp =>
        /\ DOMAIN subscriptions' \subseteq DOMAIN subscriptions
        /\ Len(channels') = Len(channels)
        /\ ssrcMap' = ssrcMap
        /\ (result'.ssrc = -1 \/ ~MapHas(subscriptions, result'.ssrc)) =>
              UNCHANGED <<ssrcMap, subscriptions, channels>>]_vars

\* a datagram for a bound source id was dropped under a complete context
\* while no stream had ever been created
C6_Witness ==
    /\ result.op = "onUdpMessage" /\ result.kind = "drop" /\ result.ssrc # -1
    /\ channels = << >> /\ DOMAIN subscriptions = {}
    /\ Bound(ssrcMap, result.ssrc)
    /\ CipherComplete(connectionData)

\* ---- C7 ----
\* C7: a datagram for a registered source id that no binding resolves, or
\* that arrives without a complete cipher context, is dropped and changes
\* nothing; a pushed frame goes to the stream registered under the
\* datagram's source id, which stays open.
C7_UnboundOrUnkeyedIsNoOp ==
    [][/\ (/\ IsUdp
           /\ MapHas(subscriptions, result'.ssrc)
           /\ (~Bound(ssrcMap, result'.ssrc) \/ ~CipherComplete(connectionData)))
          => /\ result'.kind = "drop"
             /\ UNCHANGED <<ssrcMap, subscriptions, connectionData, channels>>
       /\ (IsUdp /\ result'.kind = "push") =>
             /\ result'.chan = subscriptions[result'.ssrc]
             /\ channels'[result'.chan].state = "open"
             /\ Len(channels'[result'.chan].frames)
                   = Len(channels[result'.chan].frames) + 1]_vars

\* a datagram was dropped, under a complete context, for a source id that is
\* registered and no longer bound; its stream is open and holds the frame it
\* received before
C7_Witness ==
    /\ result.op = "onUdpMessage" /\ result.kind = "drop"
    /\ MapHas(subscriptions, result.ssrc)
    /\ ~Bound(ssrcMap, result.ssrc)
    /\ CipherComplete(connectionData)
    /\ channels[subscriptions[result.ssrc]].state = "open"
    /\ Len(channels[subscriptions[result.ssrc]].frames) = 1

\* ---- C8 ----
\* the frames that the datagrams carrying source id s decode to
C8_FramesOf ==
    [s \in WireSSRCs |->
        {Parsed(x[1], x[2]).packet.v :
            x \in {y \in Datagrams \X ConnectionDatas :
                     /\ UdpSSRC(y[1]) = s
                     /\ CipherComplete(y[2])
                     /\ ~Parsed(y[1], y[2]).raised
                     /\ Parsed(y[1], y[2]).packet.set}}]

C8_OwnFramesOnly ==
    \A c \in DOMAIN channels :
        \A i \in 1..Len(channels[c].frames) :
            /\ channels[c].ssrc \in WireSSRCs
            /\ channels[c].frames[i] \in C8_FramesOf[channels[c].ssrc]

C8_PushStep ==
    /\ (IsUdp /\ result'.kind \in {"push", "destroy"}) =>
          (result'.kind = "push" <=> Parsed(result'.msg, connectionData).packet.set)
    /\ (IsUdp /\ result'.kind = "push") =>
          LET msg == result'.msg
              c == subscriptions[ReadUInt32BE(msg, 8).v]
          IN  /\ Len(msg) > 8
              /\ result'.chan = c
              /\ channels'[c] = [channels[c] EXCEPT !.frames =
                                   Append(@, Parsed(msg, connectionData).packet.v)]
              /\ \A d \in DOMAIN channels \ {c} : channels'[d] = channels[d]

\* C8: a decoded datagram appends exactly its frame to the stream registered
\* under the big-endian source id at its offset 8 and changes no other
\* stream; every frame a stream holds is one that a datagram carrying the
\* stream's source id decodes to.
C8_RoutingCorrect == []C8_OwnFramesOnly /\ [][C8_PushStep]_vars

\* two streams, each holding the frame of its own sender
C8_Witness ==
    \E c, d \in DOMAIN channels :
        /\ channels[c].ssrc = 1 /\ channels[c].frames = <<PlainPayload>>
        /\ channels[d].ssrc = 258 /\ channels[d].frames = <<OtherPayload>>

\* ---- C9 ----
\* the step is the arrival of a datagram for stream c's source id while c is
\* registered, the source id bound and the context complete
C9_Arrival(c) ==
    /\ IsUdp
    /\ result'.ssrc = channels[c].ssrc
    /\ MapHas(subscriptions, result'.ssrc) /\ subscriptions[result'.ssrc] = c
    /\ Bound(ssrcMap, result'.ssrc)
    /\ CipherComplete(connectionData)

C9_Decoded == Parsed(result'.msg, connectionData)

\* C9: a stream starts empty; the arrival of a datagram that decodes appends
\* its frame once, at the end, to the stream it arrived for; no other step
\* changes the frames of a stream.
C9_ArrivalOrder ==
    [][\A c \in DOMAIN channels' :
          IF c \notin DOMAIN channels THEN channels'[c].frames = << >>
          ELSE IF C9_Arrival(c)
          THEN /\ result'.kind # "drop"
               /\ channels'[c].frames =
                     IF ~C9_Decoded.raised /\ C9_Decoded.packet.set
                     THEN Append(channels[c].frames, C9_Decoded.packet.v)
                     ELSE channels[c].frames
          ELSE channels'[c].frames = channels[c].frames]_vars

\* an open stream holds two different frames in their order of arrival
C9_Witness ==
    \E c \in DOMAIN channels :
        /\ channels[c].state = "open"
        /\ channels[c].frames = <<PlainPayload, <<5, 6>>>>

\* ---- C10 ----
\* C10: subscribe throws exactly when the registry holds no binding for the
\* target.
C10_ThrowsIffUnresolved ==
    result.op = "subscribe" =>
        (result.kind = "throw" <=> ~SSRCMapGet(ssrcMap, result.target).set)

\* ---- C11 ----
\* the step gives user u, bound before, another audio SSRC
C11_Rebound(u) ==
    /\ ssrcMap[u].set /\ ssrcMap'[u].set
    /\ ssrcMap'[u].v.audioSSRC # ssrcMap[u].v.audioSSRC

\* the rebinding itself: the user resolves to the new id, the old id does
\* not resolve to the user, registrations and streams are as before
C11_RebindStep ==
    \A u \in Users :
        C11_Rebound(u) =>
            /\ result'.op = "onWsPacket"
            /\ ResolveSSRC(ssrcMap', Str(u)) = Some(ssrcMap'[u].v.audioSSRC)
            /\ LET old == SSRCMapGet(ssrcMap', Num(ssrcMap[u].v.audioSSRC))
               IN  old.set => old.v.userId # u
            /\ UNCHANGED <<subscriptions, channels>>

\* a subscribe by user id that returns, returns a stream keyed by the id the
\* user is bound to at that moment
C11_SubscribeStep ==
    (result'.op = "subscribe" /\ result'.target.t = "string" /\ result'.kind = "return") =>
        /\ ssrcMap[result'.target.s].set
        /\ channels'[result'.chan].ssrc = ssrcMap[result'.target.s].v.audioSSRC

\* after the rebinding, a subscribe by user id does not throw
C11_SubscribeYields ==
    \A u \in Users : C11_Rebound(u) => ~SubscribeThrows(ssrcMap', Str(u))

\* C11: when a packet gives a bound user a new audio SSRC, the user resolves
\* to the new id, the old id no longer resolves to the user, every
\* registration and stream (the one under the old id included) is unchanged,
\* and a subscribe by user id then yields a stream keyed by the new id.
C11_Rebinding ==
    [][C11_RebindStep /\ C11_SubscribeStep /\ C11_SubscribeYields]_vars

\* the part of C11 that the code keeps: everything but the subscribe after
\* a rebinding to the source id 0
C11_RebindingKept == [][C11_RebindStep /\ C11_SubscribeStep]_vars

\* ---- C12 ----
\* C12: the registry holds, for every user, at most one binding, which
\* carries that user's id, and no two users are bound to the same audio
\* SSRC.
C12_RegistryUnique ==
    /\ \A u \in Users : ssrcMap[u].set => ssrcMap[u].v.userId = u
    /\ \A u, v \in Users :
          (ssrcMap[u].set /\ ssrcMap[v].set
             /\ ssrcMap[u].v.audioSSRC = ssrcMap[v].v.audioSSRC) => u = v
    /\ \A n \in SSRCs :
          Cardinality({u \in Users : ssrcMap[u].set /\ ssrcMap[u].v.audioSSRC = n}) <= 1

\* u2 was announced under the source id 1 after a stream of that source id
\* had received a frame; u2 alone is bound to 1 and u1 is not bound
C12_Witness ==
    /\ result.op = "onWsPacket"
    /\ result.packet = Packet("Speaking", Str("u2"), Num(1), Undefined, Undefined)
    /\ ssrcMap["u2"].set /\ ssrcMap["u2"].v.audioSSRC = 1
    /\ ~ssrcMap["u1"].set
    /\ \E c \in DOMAIN channels : channels[c].ssrc = 1 /\ Len(channels[c].frames) = 2

\* ---- C13 ----
\* the bytes of the datagram that the mode carries as nonce, and the span
\* of the ciphertext
C13_NonceLen(mode) ==
    IF mode = ModeLite THEN 4 ELSE IF mode = ModeSuffix THEN 24 ELSE 12

C13_NonceBytes(msg, mode) ==
    IF mode = ModeLite THEN SubSeq(msg, Len(msg) - 3, Len(msg))
    ELSE IF mode = ModeSuffix THEN SubSeq(msg, Len(msg) - 23, Len(msg))
    ELSE SubSeq(msg, 1, 12)

C13_Span(msg, mode) ==
    IF mode = ModeLite THEN SubSeq(msg, 13, Len(msg) - 4)
    ELSE IF mode = ModeSuffix THEN SubSeq(msg, 13, Len(msg) - 24)
    ELSE SubSeq(msg, 13, Len(msg))

\* the primitive applied to the span, under the scratch buffer that starts
\* with the nonce bytes
C13_Opened(msg, cd) ==
    LET nb == C13_NonceBytes(msg, cd.encryptionMode)
    IN  Open(C13_Span(msg, cd.encryptionMode),
             nb \o SubSeq(cd.nonceBuffer, Len(nb) + 1, Len(cd.nonceBuffer)),
             cd.secretKey)

C13_NoMarker(payload) == ~(At(payload, 0) = 190 /\ At(payload, 1) = 222)

\* C13: when a datagram is decoded, the primitive opens the span of its
\* mode under the nonce bytes of its mode, and the opened payload does not
\* start with BE DE, the frame pushed is exactly the opened payload.
C13_DecodeSpan ==
    [][(/\ IsUdp /\ result'.chan # 0
        /\ Len(result'.msg) >= Max(12, C13_NonceLen(connectionData.encryptionMode))
        /\ C13_Opened(result'.msg, connectionData).set
        /\ C13_NoMarker(C13_Opened(result'.msg, connectionData).v))
       => /\ result'.kind = "push"
          /\ channels'[result'.chan].frames =
                Append(channels[result'.chan].frames,
                       C13_Opened(result'.msg, connectionData).v)]_vars

\* a suffix-mode datagram was decoded to the sender's payload, after a
\* frame decoded under another mode
C13_Witness ==
    /\ result.op = "onUdpMessage" /\ result.kind = "push"
    /\ connectionData.encryptionMode = ModeSuffix
    /\ result.msg = MkDatagram(ModeSuffix, 1, PlainPayload, TRUE)
    /\ channels[result.chan].frames = <<<<5, 6>>, PlainPayload>>

\* ---- C14 ----
\* the cursor after i more elements, each consuming one byte when its
\* leading byte is 0 and otherwise one header byte and a body of (low nibble
\* of the leading byte + 1) bytes
RECURSIVE C14_Cursor(_, _, _)
C14_Cursor(payload, offset, i) ==
    IF i = 0 \/ offset >= Len(payload) THEN offset
    ELSE IF At(payload, offset) = 0
         THEN C14_Cursor(payload, offset + 1, i - 1)
         ELSE C14_Cursor(payload, offset + 1 + (At(payload, offset) % 16) + 1, i - 1)

\* the frame: the payload from the cursor, one further byte skipped when it
\* is 00 or 02
C14_Frame(payload) ==
    LET cur == C14_Cursor(payload, 4, At(payload, 2) * 256 + At(payload, 3))
        from == IF At(payload, cur) = 0 \/ At(payload, cur) = 2 THEN cur + 1 ELSE cur
    IN  SubSeq(payload, from + 1, Len(payload))

\* C14: when a datagram is decoded and its opened payload is longer than 4
\* bytes and starts with BE DE, the frame pushed is the payload from the
\* cursor behind the counted elements (body length: low nibble + 1) and the
\* alignment byte 00 or 02.
C14_StripsByLowNibble ==
    [][(/\ IsUdp /\ result'.chan # 0
        /\ Len(result'.msg) >= Max(12, C13_NonceLen(connectionData.encryptionMode))
        /\ C13_Opened(result'.msg, connectionData).set
        /\ ~C13_NoMarker(C13_Opened(result'.msg, connectionData).v)
        /\ Len(C13_Opened(result'.msg, connectionData).v) > 4
        /\ C14_Cursor(C13_Opened(result'.msg, connectionData).v, 4,
                      At(C13_Opened(result'.msg, connectionData).v, 2) * 256
                      + At(C13_Opened(result'.msg, connectionData).v, 3))
              < Len(C13_Opened(result'.msg, connectionData).v))
       => /\ result'.kind = "push"
          /\ channels'[result'.chan].frames =
                Append(channels[result'.chan].frames,
                       C14_Frame(C13_Opened(result'.msg, connectionData).v))]_vars

\* ---- C15 ----
\* C15: a frame that was pushed does not start with BE DE, and the
\* stripping step applied to it returns it unchanged.
C15_StrippingIdempotent ==
    [][(IsUdp /\ result'.kind = "push") =>
          LET frames == channels'[result'.chan].frames
              frame == frames[Len(frames)]
          IN  /\ C13_NoMarker(frame)
              /\ StripExtension(frame) = [raised |-> FALSE, packet |-> frame]]_vars

\* ---- C16 ----
\* the packet is of a recognized kind and carries the fields of that kind
\* with their types
C16_Recognized(packet) ==
    \/ packet.op = "ClientDisconnect" /\ packet.d.user_id.t = "string"
    \/ packet.op = "Speaking" /\ packet.d.user_id.t = "string"
          /\ packet.d.ssrc.t = "number"
    \/ packet.op = "ClientConnect" /\ packet.d.user_id.t = "string"
          /\ packet.d.audio_ssrc.t = "number"

\* C16: handling a signaling packet returns and leaves the registrations
\* and every stream unchanged; a packet of an unrecognized kind or with
\* wrongly typed fields leaves the registry unchanged too.
C16_SignalingLeavesRouter ==
    [][result'.op = "onWsPacket" =>
          /\ result'.kind = "return"
          /\ UNCHANGED <<subscriptions, channels>>
          /\ ~C16_Recognized(result'.packet) => ssrcMap' = ssrcMap]_vars

\* u1 was disconnected; no binding resolves the source id 1, whose stream
\* is still registered and open and holds the frames it received
C16_Witness ==
    /\ result.op = "onWsPacket"
    /\ result.packet = Packet("ClientDisconnect", Str("u1"), Undefined, Undefined, Undefined)
    /\ ~Bound(ssrcMap, 1)
    /\ MapHas(subscriptions, 1)
    /\ channels[subscriptions[1]].state = "open"
    /\ Len(channels[subscriptions[1]].frames) = 2

\* ---- C17 ----
\* C17: a stream terminated by a decode failure keeps its frames as they
\* are; and once a stream of a source id has been terminated by a decode
\* failure, a subscribe that returns a stream of that source id returns an
\* open one, never one that was terminated.
C17_TerminatedIsFinal ==
    [][/\ \A c \in DOMAIN channels :
             channels[c].error =>
                /\ channels'[c].frames = channels[c].frames
                /\ channels'[c].error /\ channels'[c].state # "open"
       /\ (/\ result'.op = "subscribe" /\ result'.kind = "return"
           /\ \E c \in DOMAIN channels :
                 channels[c].error /\ channels[c].ssrc = channels'[result'.chan].ssrc)
          => /\ channels'[result'.chan].state = "open"
             /\ ~channels'[result'.chan].error]_vars

\* ---- C18 ----
\* C18: when the close of a stream is notified, the registration under its
\* source id is that stream's own; the step removes it and leaves every
\* other registration and every other stream as it was.
C18_CloseRemovesOwnOnly ==
    [][\A c \in DOMAIN channels :
          (channels[c].state = "destroyed" /\ channels'[c].state = "closed") =>
             /\ MapHas(subscriptions, channels[c].ssrc)
             /\ subscriptions[channels[c].ssrc] = c
             /\ DOMAIN subscriptions' = DOMAIN subscriptions \ {channels[c].ssrc}
             /\ \A s \in DOMAIN subscriptions' : subscriptions'[s] = subscriptions[s]
             /\ \A d \in DOMAIN channels \ {c} : channels'[d] = channels[d]]_vars

\* the first stream is closed and unregistered; the second, of another
\* source id, is registered and open and has received a frame
C18_Witness ==
    /\ Len(channels) = 2
    /\ channels[1].state = "closed"
    /\ channels[2].state = "open" /\ channels[2].ssrc # channels[1].ssrc
    /\ MapHas(subscriptions, channels[2].ssrc) /\ subscriptions[channels[2].ssrc] = 2
    /\ ~MapHas(subscriptions, channels[1].ssrc)
    /\ Len(channels[2].frames) = 1
    /\ result = Idle

\* ---- C19 ----
\* the outcome of a decode: raised, failed, or the frame
C19_Outcome(p) ==
    IF p.raised THEN [kind |-> "raise", frame |-> << >>]
    ELSE IF p.packet.set THEN [kind |-> "push", frame |-> p.packet.v]
    ELSE [kind |-> "destroy", frame |-> << >>]

\* the context with the scratch buffer as it was installed
C19_Fresh(cd) == [cd EXCEPT !.nonceBuffer = Zeros(NonceLen)]

\* C19: a decode ends as it would have ended under the scratch buffer as
\* installed, whatever was decoded before: the same path, the same frame
\* pushed; it changes the scratch buffer in its first 4, 24 or 12 bytes at
\* most, and neither the mode nor the key.  A datagram that is not decoded
\* leaves the context as it is.
C19_DecodeIndependent ==
    [][IsUdp =>
          IF result'.chan = 0 THEN connectionData' = connectionData
          ELSE LET here == C19_Outcome(Parsed(result'.msg, connectionData))
                   fresh == C19_Outcome(Parsed(result'.msg, C19_Fresh(connectionData)))
               IN  /\ here = fresh
                   /\ result'.kind = fresh.kind
                   /\ fresh.kind = "push" =>
                         channels'[result'.chan].frames =
                            Append(channels[result'.chan].frames, fresh.frame)
                   /\ connectionData'.encryptionMode = connectionData.encryptionMode
                   /\ connectionData'.secretKey = connectionData.secretKey
                   /\ Len(connectionData'.nonceBuffer) = Len(connectionData.nonceBuffer)
                   /\ \A i \in 1..Len(connectionData.nonceBuffer) :
                         i > C13_NonceLen(connectionData.encryptionMode) =>
                            connectionData'.nonceBuffer[i] = connectionData.nonceBuffer[i]]_vars

\* the sender's second datagram was decoded under a scratch buffer that
\* held the nonce of the first
C19_Witness ==
    /\ result.op = "onUdpMessage" /\ result.kind = "push"
    /\ connectionData.encryptionMode = ModeLite
    /\ result.msg = MkNextDatagram(ModeLite, 1, PlainPayload)
    /\ channels[result.chan].frames = <<PlainPayload, PlainPayload>>
    /\ SubSeq(connectionData.nonceBuffer, 1, 4) = NextLiteTrailer

\* ---- C20 ----
C20_NoZeroVideo ==
    \A u \in Users : ssrcMap[u].set => ssrcMap[u].v.videoSSRC # Num(0)

C20_ConnectStep ==
    (/\ result'.op = "onWsPacket"
     /\ result'.packet.op = "ClientConnect"
     /\ result'.packet.d.user_id.t = "string"
     /\ result'.packet.d.audio_ssrc.t = "number"
     /\ result'.packet.d.video_ssrc = Num(0))
    => /\ result'.packet.d.user_id.s \in Users
       /\ ssrcMap'[result'.packet.d.user_id.s] =
             Some([userId |-> result'.packet.d.user_id.s,
                   audioSSRC |-> result'.packet.d.audio_ssrc.n,
                   videoSSRC |-> Undefined])

\* C20: no binding has the video SSRC 0; a connect packet with the video
\* SSRC 0 leaves the user bound to the announced audio SSRC, without a
\* video SSRC.
C20_ZeroVideoIsAbsent == []C20_NoZeroVideo /\ [][C20_ConnectStep]_vars

\* u1 was announced by a connect packet with the video source id 0: it is
\* bound to the audio source id 1 without a video source id, beside u2,
\* and its stream holds a frame
C20_Witness ==
    /\ result.op = "onWsPacket"
    /\ result.packet = Packet("ClientConnect", Str("u1"), Undefined, Num(1), Num(0))
    /\ ssrcMap["u1"] = Some([userId |-> "u1", audioSSRC |-> 1, videoSSRC |-> Undefined])
    /\ ssrcMap["u2"].set /\ ssrcMap["u2"].v.audioSSRC = 258
    /\ MapHas(subscriptions, 1) /\ Len(channels[subscriptions[1]].frames) = 1

====
